---- MODULE Spec2Model ----
EXTENDS Integers, Sequences, FiniteSets, TLC

(***************************************************************************)
(* chess-net: the game orchestrator (chessnet/game.py, chessnet/server.py),*)
(* the Fargate engine runner and manager (chessnet/fargate.py) and the     *)
(* event broker (chessnet/events.py).                                      *)
(*                                                                         *)
(* Spec       -- one game requested through POST /play: _play, play_game,  *)
(*               the two FargateRunners and the remote scheduler.          *)
(* SpecBroker -- the Broker alone: subscribe, unsubscribe, publish and the *)
(*               event loop running the scheduled accept tasks.            *)
(* SpecLive   -- Spec with the progress of the readiness poll.             *)
(* SpecStorage -- the calls of SqlStorage (chessnet/sql.py) and of         *)
(*               FileStorage (chessnet/storage.py) on fresh stores.        *)
(* SpecServer -- Spec together with store_event, the server's subscriber   *)
(*               that writes the published events to SqlStorage.           *)
(* SpecAdapter -- ProtocolAdapter and TransportAdapter (chessnet/runner.py) *)
(*               between the event loop's sockets and the UciProtocols.    *)
(***************************************************************************)

VARIABLES
    \* ---- Spec: the orchestration of one game
    engine,          \* FargateRunner._engine of the white and the black runner
    pc,              \* position of the _play task (server.py) inside play_game
    board,           \* chess.Board of play_game: plies pushed and board.outcome()
    playLog,         \* the play calls made so far: side, result, ply at the call
    published,       \* the events handed to broker.publish, in call order
    gameRet,         \* how chessnet.game.play_game ended: pending, returned, raised
    gameOutcome,     \* the value play_game returned (None: absent)
    runPc,           \* position of each runner's run() coroutine
    runErr,          \* the step at which run() failed ("none": it has not)
    running_engine,  \* FargateRunner.running_engine (None or the task arn)
    protocol,        \* FargateRunner.protocol (None or the attached session)
    poll,            \* index into sleeps of _wait_for_ready
    lastStatus,      \* what the latest describe_tasks poll of _wait_for_ready saw
    templates,       \* remote scheduler: task template per engine family name
    launched,        \* remote scheduler: run_task calls that launched an instance
    stopReq,         \* remote scheduler: stop_task calls received per instance
    sd,              \* shutdown calls per runner and call site, with their state
    sdReason,        \* the reason string handed to each shutdown call
    \* ---- SpecBroker: the event bus
    subscriptions,   \* Broker.subscriptions: channel -> handle -> Subscription
    tasks,           \* the event loop's ready queue of sub.accept(event) tasks
    lastInvoked,     \* the latest callback invocation: subscription, event
    pubCount,        \* the number of publish calls so far
    crashed,         \* some callback task has ended with an exception
    nextHandle,      \* source of fresh subscription handles (uuid4)
    \* ---- SpecStorage, SpecServer: SqlStorage, FileStorage and store_event
    engines_table,   \* SqlStorage: rows of "engines" by primary key engine_id
    games_table,     \* SqlStorage: rows of "games" by primary key game_id
    moves_table,     \* SqlStorage: rows of "moves" in insertion order
    data,            \* FileStorage.data["engines"]: engine id -> Engine
    ret,             \* the latest storage call: operation, arguments, result
    delivered,       \* how many published events store_event has been started for
    inflight,        \* the store_event tasks suspended inside their storage call
    \* ---- SpecAdapter: the connections to the engines (chessnet/runner.py)
    conn,            \* the socket of each connection as the event loop drives it
    alive,           \* TransportAdapter.alive of the adapters created so far
    driver,          \* what each ProtocolAdapter has forwarded to its UciProtocol
    returncode       \* the latest answer of get_returncode per connection

gameVars == <<engine, pc, board, playLog, published, gameRet, gameOutcome,
              runPc, runErr, running_engine, protocol, poll, lastStatus, templates,
              launched, stopReq, sd, sdReason>>

brokerVars == <<subscriptions, tasks, lastInvoked, pubCount, crashed, nextHandle>>

storageVars == <<engines_table, games_table, moves_table, data, ret, delivered,
                 inflight>>

adapterVars == <<conn, alive, driver, returncode>>

vars == <<gameVars, brokerVars, storageVars, adapterVars>>

None == "None"

Sides == {"white", "black"}

Other(s) == IF s = "white" THEN "black" ELSE "white"

\* ---- bounds of the model
MaxPly == 2
MaxCalls == 3
MaxSubs == 1
MaxPublish == 2
MaxData == 2

\* ---------------------------------------------------------------------------
\* Data model (chessnet/storage.py, chessnet/events.py)
\* ---------------------------------------------------------------------------

\* The engines registered in storage; _play builds a runner for any of them.
Engines ==
    { [family |-> "stockfish", variant |-> "main", version |-> "11",
       image |-> "andrijdavid/stockfish:11"],
      [family |-> "alphazero", variant |-> "main", version |-> "1.0.0",
       image |-> "alphazero:1.0.0"] }

\* Engine.id(): f"{family}#{variant}#{version}", kept as its parts.
Id(e) == <<e.family, "#", e.variant, "#", e.version>>

\* FargateEngineManager._safe_name: name.replace("#", "_")
SafeName(name) == [i \in DOMAIN name |-> IF name[i] = "#" THEN "_" ELSE name[i]]

GameId == "g1"

\* Events.start_game / Events.end_game / Events.make_move
StartGameEvent(game) == [typ |-> "START_GAME", game |-> game]

EndGameEvent(game_id, outcome) ==
    [typ |-> "END_GAME", game_id |-> game_id, outcome |-> outcome]

MakeMoveEvent(game_id, move, fen_before, engine_id) ==
    [typ |-> "MAKE_MOVE", game_id |-> game_id, move |-> move,
     fen_before |-> fen_before, engine_id |-> engine_id]

\* The Game value built by _play.
NewGame(white, black) ==
    [game_id |-> GameId, timestamp |-> 0, white |-> white, black |-> black,
     outcome |-> None]

\* ---------------------------------------------------------------------------
\* The board of play_game (python-chess, seen through the calls game.py makes)
\* ---------------------------------------------------------------------------

\* chess.Board(): the start position, white to move, no outcome.
NewBoard == [ply |-> 0, outcome |-> None]

\* board.turn: white moves on even plies.
Turn(b) == IF b.ply % 2 = 0 THEN "white" ELSE "black"

\* board.fen(): side to move and full-move number of the position.
Fen(b) == [turn |-> Turn(b), fullmove |-> (b.ply \div 2) + 1]

\* The errors a play call may raise (chess.engine).
PlayErrors == {"EngineError", "EngineTerminatedError"}

\* The moves an engine may answer with (uci notation).
Moves == {"e2e4", "g1f3"}

\* The outcomes board.outcome() can report after the side to move has moved:
\* none, a win of the mover, or a draw.  A game of chess is finite (75-move
\* rule, fivefold repetition): at MaxPly the position is terminal.
OutcomesAfter(b) ==
    LET final == { IF Turn(b) = "white" THEN "white_wins" ELSE "black_wins",
                   "draw" }
    IN  IF b.ply + 1 >= MaxPly THEN final ELSE final \cup {None}

\* board.push(move) followed by what board.outcome() then reports.
Push(b, o) == [ply |-> b.ply + 1, outcome |-> o]

\* chess.Outcome.result()
Result(o) ==
    IF o = "draw" THEN "1/2-1/2"
    ELSE IF o = "white_wins" THEN "1-0" ELSE "0-1"

\* ---------------------------------------------------------------------------
\* FargateEngineManager and the remote scheduler (chessnet/fargate.py)
\* ---------------------------------------------------------------------------

\* len(sleeps) of _wait_for_ready: [0, 5, 5, 10, 10, 30, 30, 60, 60]
NumSleeps == 9

\* "count" of _run_task_configuration: the instances one run_task call asks for.
TaskCount == 1

\* What the remote scheduler holds for a template family: nothing, a template
\* with an older version tag, or one tagged with _version_tag().
TemplateStates == {"none", "old", "current"}

\* What one describe_tasks poll can observe of the launched instance.
PollResults ==
    {"PENDING", "STOPPED", "RUNNING_DETACHED", "RUNNING_NO_ENI",
     "RUNNING_NO_PUBLIC_IP", "READY", "API_ERROR"}

\* A variant of WaitStep that goes on polling an instance that is ready.
WaitStep_IgnoresReady(seen) ==
    CASE seen = "API_ERROR"            -> "raise"
      [] seen = "RUNNING_NO_ENI"       -> "raise"
      [] seen = "RUNNING_NO_PUBLIC_IP" -> "raise"
      [] OTHER                         -> "continue"

\* The body of the loop of _wait_for_ready for one observation: go on to the
\* next sleep, return the RunningEngine, or raise.
WaitStep(seen) ==
    CASE seen = "API_ERROR"            -> "raise"
      [] seen = "PENDING"              -> "continue"
      [] seen = "STOPPED"              -> "continue"  \* status != "RUNNING" is first
      [] seen = "RUNNING_DETACHED"     -> "continue"
      [] seen = "RUNNING_NO_ENI"       -> "raise"
      [] seen = "RUNNING_NO_PUBLIC_IP" -> "raise"     \* no ["Association"]
      [] seen = "READY"                -> "return"

\* The task arn run_task hands out for the instance of runner r.
Arn(r) == IF r = "white" THEN "arn:task/white" ELSE "arn:task/black"

\* The reason strings of play_game and of FargateRunner.run.
Finished == [kind |-> "Game finished successfully", err |-> None]

Aborted(e) == [kind |-> "Game aborted due to error", err |-> e]

InitError(e) == [kind |-> "Error during initialization", err |-> e]

NoReason == [kind |-> None, err |-> None]

\* The call sites of shutdown: the except clause of run(), the end of the try
\* block of play_game, the except clause of play_game.
Sites == {"run", "ok", "err"}

\* The template family of runner r's engine: _safe_name(engine.id()).
Family(r) == SafeName(Id(engine[r]))

Families == { SafeName(Id(e)) : e \in Engines }

orchestratorVars == <<pc, board, playLog, published, gameRet, gameOutcome>>

\* A variant of ProvisionFails that retries: the failed provisioning is started
\* over from the template lookup.
ProvisionFails_Retries(r, why) ==
    /\ runPc' = [runPc EXCEPT ![r] = "describe"]
    /\ runErr' = [runErr EXCEPT ![r] = why]

\* run() of runner r fails at step `why` before any instance handle is held:
\* the exception leaves run_engine and run() (line 57 is outside the try).
ProvisionFails(r, why) ==
    /\ runPc' = [runPc EXCEPT ![r] = "failed"]
    /\ runErr' = [runErr EXCEPT ![r] = why]

\* A variant of Describe that does not compare the version tag: any existing
\* template counts as up to date.
Describe_KeepsOld(r) ==
    /\ runPc[r] = "describe"
    /\ runPc' = [runPc EXCEPT ![r] =
                    IF templates[Family(r)] = "none" THEN "register"
                    ELSE "run_task"]
    /\ UNCHANGED <<brokerVars, storageVars, adapterVars, engine, orchestratorVars, runErr, running_engine, protocol,
                   poll, lastStatus, templates, launched, stopReq, sd, sdReason>>

\* _get_or_create_task_definition, the describe_task_definition call: no
\* template raises into the except clause, an old tag registers inside the
\* try block, the current tag registers nothing.
Describe(r) ==
    /\ runPc[r] = "describe"
    /\ runPc' = [runPc EXCEPT ![r] =
                    CASE templates[Family(r)] = "none" -> "register"
                      [] templates[Family(r)] = "old" -> "register_old"
                      [] OTHER -> "run_task"]
    /\ UNCHANGED <<brokerVars, storageVars, adapterVars, engine, orchestratorVars, runErr, running_engine, protocol,
                   poll, lastStatus, templates, launched, stopReq, sd, sdReason>>

\* _get_or_create_task_definition, a register_task_definition call: inside
\* the try block (a failure falls into the except clause, which registers
\* again) or inside the except clause (a failure leaves run_engine).
Register(r) ==
    /\ runPc[r] \in {"register_old", "register"}
    /\ \/ /\ templates' = [templates EXCEPT ![Family(r)] = "current"]
          /\ runPc' = [runPc EXCEPT ![r] = "run_task"]
          /\ UNCHANGED runErr
       \/ /\ UNCHANGED templates
          /\ IF runPc[r] = "register_old"
             THEN /\ runPc' = [runPc EXCEPT ![r] = "register"]
                  /\ UNCHANGED runErr
             ELSE ProvisionFails(r, "register_task_definition")
    /\ UNCHANGED <<brokerVars, storageVars, adapterVars, engine, orchestratorVars, running_engine, protocol, poll,
                   lastStatus, launched, stopReq, sd, sdReason>>

\* A variant of RunTask that launches nothing when the other runner has
\* already launched an instance of the same template family.
RunTask_SharesInstance(r) ==
    /\ runPc[r] = "run_task"
    /\ \/ /\ launched' = [launched EXCEPT ![r] =
                            IF Family(Other(r)) = Family(r) /\ launched[Other(r)] > 0
                            THEN @ ELSE @ + TaskCount]
          /\ runPc' = [runPc EXCEPT ![r] = "polling"]
          /\ UNCHANGED runErr
       \/ /\ UNCHANGED launched
          /\ ProvisionFails(r, "run_task")
    /\ UNCHANGED <<brokerVars, storageVars, adapterVars, engine, orchestratorVars, running_engine, protocol, poll,
                   lastStatus, templates, stopReq, sd, sdReason>>

\* run_engine, the run_task call: launches the instances the configuration
\* asks for, or raises.
RunTask(r) ==
    /\ runPc[r] = "run_task"
    /\ \/ /\ launched' = [launched EXCEPT ![r] = @ + TaskCount]
          /\ runPc' = [runPc EXCEPT ![r] = "polling"]
          /\ UNCHANGED runErr
       \/ /\ UNCHANGED launched
          /\ ProvisionFails(r, "run_task")
    /\ UNCHANGED <<brokerVars, storageVars, adapterVars, engine, orchestratorVars, running_engine, protocol, poll,
                   lastStatus, templates, stopReq, sd, sdReason>>

\* _wait_for_ready, one pass of the loop over sleeps; run() then stores the
\* RunningEngine and goes on to connect.  The loop index is local to the call:
\* it is gone (0) once the call has returned or raised.
Poll(r) ==
    /\ runPc[r] = "polling"
    /\ poll[r] < NumSleeps
    /\ \E seen \in PollResults :
          /\ lastStatus' = [lastStatus EXCEPT ![r] = seen]
          /\ CASE WaitStep(seen) = "continue" ->
                    /\ poll' = [poll EXCEPT ![r] = @ + 1]
                    /\ UNCHANGED <<runPc, runErr, running_engine>>
               [] WaitStep(seen) = "return" ->
                    /\ running_engine' = [running_engine EXCEPT ![r] = Arn(r)]
                    /\ runPc' = [runPc EXCEPT ![r] = "connecting"]
                    /\ poll' = [poll EXCEPT ![r] = 0]
                    /\ UNCHANGED runErr
               [] OTHER ->
                    /\ ProvisionFails(r, seen)
                    /\ poll' = [poll EXCEPT ![r] = 0]
                    /\ UNCHANGED running_engine
    /\ UNCHANGED <<brokerVars, storageVars, adapterVars, engine, orchestratorVars, protocol, templates, launched,
                   stopReq, sd, sdReason>>

\* _wait_for_ready, the loop is exhausted: "Task took too long to start".
PollTimeout(r) ==
    /\ runPc[r] = "polling"
    /\ poll[r] = NumSleeps
    /\ ProvisionFails(r, "timeout")
    /\ poll' = [poll EXCEPT ![r] = 0]
    /\ UNCHANGED <<brokerVars, storageVars, adapterVars, engine, orchestratorVars, running_engine, protocol,
                   lastStatus, templates, launched, stopReq, sd, sdReason>>

\* FargateRunner.shutdown(reason) is called from call site g: the coroutine
\* hands running_engine and the reason to manager.stop_engine.
CallShutdown(calls, r, g) == [calls EXCEPT ![r][g] = "pending"]

\* The except clause of run(): shutdown(reason), then re-raise.
RunFails(r, e) ==
    /\ sd' = CallShutdown(sd, r, "run")
    /\ sdReason' = [sdReason EXCEPT ![r]["run"] = InitError(e)]
    /\ runPc' = [runPc EXCEPT ![r] = "run_shutdown"]
    /\ runErr' = [runErr EXCEPT ![r] = e]

\* run(), create_connection to the running engine; the adapter's protocol is
\* attached to the runner.
Connect(r) ==
    /\ runPc[r] = "connecting"
    /\ \/ /\ protocol' = [protocol EXCEPT ![r] = "UciProtocol"]
          /\ runPc' = [runPc EXCEPT ![r] = "initializing"]
          /\ UNCHANGED <<runErr, sd, sdReason>>
       \/ /\ RunFails(r, "create_connection")
          /\ UNCHANGED protocol
    /\ UNCHANGED <<brokerVars, storageVars, adapterVars, engine, orchestratorVars, running_engine, poll, lastStatus, templates,
                   launched, stopReq>>

\* run(), protocol.initialize()
Initialize(r) ==
    /\ runPc[r] = "initializing"
    /\ \/ /\ runPc' = [runPc EXCEPT ![r] = "done"]
          /\ UNCHANGED <<runErr, sd, sdReason>>
       \/ RunFails(r, "initialize")
    /\ UNCHANGED <<brokerVars, storageVars, adapterVars, engine, orchestratorVars, running_engine, protocol, poll,
                   lastStatus, templates, launched, stopReq>>

\* FargateEngineManager.stop_engine in its worker thread: one stop_task call
\* for running_engine.task_arn, which returns or raises; a None handle raises
\* before any call.  A shutdown called from run() then re-raises.
StopEngine(r, g) ==
    /\ sd[r][g] = "pending"
    /\ IF running_engine[r] = None
       THEN /\ sd' = [sd EXCEPT ![r][g] = "raised"]
            /\ UNCHANGED stopReq
       ELSE /\ stopReq' = [stopReq EXCEPT ![r] = @ + 1]
            /\ \/ sd' = [sd EXCEPT ![r][g] = "ok"]
               \/ sd' = [sd EXCEPT ![r][g] = "raised"]
    /\ runPc' = IF g = "run" THEN [runPc EXCEPT ![r] = "failed"] ELSE runPc
    /\ UNCHANGED <<brokerVars, storageVars, adapterVars, engine, orchestratorVars, runErr, running_engine, protocol,
                   poll, lastStatus, templates, launched, sdReason>>

\* ---------------------------------------------------------------------------
\* play_game (chessnet/game.py) inside _play (chessnet/server.py)
\* ---------------------------------------------------------------------------

runnerVars == <<runErr, running_engine, protocol, poll, lastStatus, templates, launched,
                stopReq>>

TurnPc(side) == IF side = "white" THEN "white_turn" ELSE "black_turn"

\* The engine id game.py writes into the MakeMove event of a move by `side`.
MoveEngineId(side) == Id(engine["white"])

\* asyncio.gather(white.shutdown(reason), black.shutdown(reason)) at call
\* site g: both shutdown coroutines are started with that reason.
GatherShutdown(g, reason) ==
    /\ sd' = [r \in Sides |-> [sd[r] EXCEPT ![g] = "pending"]]
    /\ sdReason' = [r \in Sides |-> [sdReason[r] EXCEPT ![g] = reason]]

\* _play up to its first suspension: build the runners and the Game, publish
\* StartGame, enter play_game, which creates the board and starts both run().
PlayStart ==
    /\ pc = "init"
    /\ published' = Append(published,
          StartGameEvent(NewGame(Id(engine["white"]), Id(engine["black"]))))
    /\ board' = NewBoard
    /\ runPc' = [r \in Sides |-> "describe"]
    /\ pc' = "starting"
    /\ UNCHANGED <<brokerVars, storageVars, adapterVars, engine, playLog, gameRet, gameOutcome, runnerVars, sd,
                   sdReason>>

\* gather(white.run(), black.run()) returns: the turn loop starts.
GatherRunOk ==
    /\ pc = "starting"
    /\ \A r \in Sides : runPc[r] = "done"
    /\ pc' = "white_turn"
    /\ UNCHANGED <<brokerVars, storageVars, adapterVars, engine, board, playLog, published, gameRet, gameOutcome,
                   runPc, runnerVars, sd, sdReason>>

\* gather(white.run(), black.run()) raises the first failure: it leaves
\* play_game and _play; the other run() goes on by itself.
GatherRunFail ==
    /\ pc = "starting"
    /\ \E r \in Sides : runPc[r] = "failed"
    /\ pc' = "failed"
    /\ gameRet' = "raised"
    /\ UNCHANGED <<brokerVars, storageVars, adapterVars, engine, board, playLog, published, gameOutcome, runPc,
                   runnerVars, sd, sdReason>>

\* A variant of AfterPlay without the outcome check: the loop goes on to the
\* other side whatever the board says.
AfterPlay_NoBreak(side, b) ==
    /\ board' = b
    /\ pc' = TurnPc(Other(side))
    /\ UNCHANGED <<sd, sdReason>>

\* The rest of one half of the loop body after play returned: publish and
\* push a move if there is one, then break on an outcome (and start the
\* shutdown of the try block) or go on to the other side.
AfterPlay(side, b) ==
    /\ board' = b
    /\ IF b.outcome # None
       THEN /\ pc' = "shutdown_ok"
            /\ GatherShutdown("ok", Finished)
       ELSE /\ pc' = TurnPc(Other(side))
            /\ UNCHANGED <<sd, sdReason>>

\* A variant of AbortReason that loses the error: the except clause reports
\* the reason of the try block.
AbortReason_LosesError(e) == Finished

\* The reason of the except clause of play_game:
\* f"Game aborted due to error: {type(e).__name__}: {e}"
AbortReason(e) == Aborted(e)

\* FargateRunner.play: `if self.protocol is None: raise`, else the call is
\* handed to the protocol session.
PlayDelegates(r) == protocol[r] # None

\* `side`.play raises (FargateRunner.play without a protocol always does):
\* the except clause of play_game starts the shutdown with the error.
PlayRaises(side) ==
    /\ pc = TurnPc(side)
    /\ Len(playLog) < MaxCalls
    /\ \E e \in (IF ~PlayDelegates(side) THEN {"Engine is not running"}
                 ELSE PlayErrors) :
          /\ playLog' = Append(playLog, [side |-> side, ret |-> "raise",
                                         ply |-> board.ply, err |-> e])
          /\ GatherShutdown("err", AbortReason(e))
    /\ pc' = "shutdown_err"
    /\ UNCHANGED <<brokerVars, storageVars, adapterVars, engine, board, published, gameRet, gameOutcome, runPc,
                   runnerVars>>

\* A variant of MoveEvent that reads board.fen() after board.push(move).
MoveEvent_AfterPush(side, m, b) ==
    MakeMoveEvent(GameId, [san |-> m, time_ms |-> 0], Fen(Push(b, None)),
                  MoveEngineId(side))

\* The event play_game publishes for move m of `side`, built while the board
\* is still b, the position before the move:
\* Events.make_move(game_id, Move(res.move.uci(), 0), board.fen(), ...)
MoveEvent(side, m, b) ==
    MakeMoveEvent(GameId, [san |-> m, time_ms |-> 0], Fen(b),
                  MoveEngineId(side))

\* `side`.play returns a result without a move.
PlayNone(side) ==
    /\ pc = TurnPc(side)
    /\ Len(playLog) < MaxCalls
    /\ PlayDelegates(side)
    /\ playLog' = Append(playLog,
                         [side |-> side, ret |-> "none", ply |-> board.ply,
                          err |-> None])
    /\ AfterPlay(side, board)
    /\ UNCHANGED <<brokerVars, storageVars, adapterVars, engine, published, gameRet, gameOutcome, runPc, runnerVars>>

\* `side`.play returns a move: MakeMove is published with the fen before the
\* move, the move is pushed.
PlayMove(side) ==
    /\ pc = TurnPc(side)
    /\ Len(playLog) < MaxCalls
    /\ PlayDelegates(side)
    /\ \E m \in Moves, o \in OutcomesAfter(board) :
          /\ playLog' = Append(playLog,
                          [side |-> side, ret |-> "move", ply |-> board.ply,
                           err |-> None])
          /\ published' = Append(published, MoveEvent(side, m, board))
          /\ AfterPlay(side, Push(board, o))
    /\ UNCHANGED <<brokerVars, storageVars, adapterVars, engine, gameRet, gameOutcome, runPc, runnerVars>>

\* A variant of Return that accepts an absent outcome and publishes EndGame
\* with a made-up result.
Return_Fabricated ==
    /\ gameRet' = "returned"
    /\ gameOutcome' = board.outcome
    /\ pc' = "done"
    /\ published' = Append(published,
          EndGameEvent(GameId, IF board.outcome = None THEN "1/2-1/2"
                               ELSE Result(board.outcome)))

\* play_game returns board.outcome() to _play, which raises on None and
\* publishes EndGame with outcome.result() otherwise.
Return ==
    /\ gameRet' = "returned"
    /\ gameOutcome' = board.outcome
    /\ IF board.outcome = None
       THEN /\ pc' = "failed"
            /\ UNCHANGED published
       ELSE /\ pc' = "done"
            /\ published' = Append(published,
                                   EndGameEvent(GameId, Result(board.outcome)))

\* The gather of the shutdowns at call site g has both results.
GatherShutdownDone(g) ==
    /\ pc = IF g = "ok" THEN "shutdown_ok" ELSE "shutdown_err"
    /\ \A r \in Sides : sd[r][g] = "ok"
    /\ Return
    /\ UNCHANGED <<brokerVars, storageVars, adapterVars, engine, board, playLog, runPc, runnerVars, sd, sdReason>>

\* A variant of GatherShutdownRaiseOk whose except clause sits inside the
\* loop: after a failed shutdown the loop body is entered again.
GatherShutdownRaiseOk_Resumes ==
    /\ pc = "shutdown_ok"
    /\ \E r \in Sides : sd[r]["ok"] = "raised"
    /\ pc' = "white_turn"
    /\ UNCHANGED <<brokerVars, storageVars, adapterVars, engine, board, playLog, published, gameRet,
                   gameOutcome, runPc, runnerVars, sd, sdReason>>

\* The gather of the shutdowns at the end of the try block raises: the except
\* clause of play_game catches it and shuts both runners down again.
GatherShutdownRaiseOk ==
    /\ pc = "shutdown_ok"
    /\ \E r \in Sides : sd[r]["ok"] = "raised"
    /\ pc' = "shutdown_err"
    /\ GatherShutdown("err", AbortReason("StopTaskError"))
    /\ UNCHANGED <<brokerVars, storageVars, adapterVars, engine, board, playLog, published, gameRet, gameOutcome,
                   runPc, runnerVars>>

\* The gather of the shutdowns in the except clause raises: the exception
\* leaves play_game and _play.
GatherShutdownRaiseErr ==
    /\ pc = "shutdown_err"
    /\ \E r \in Sides : sd[r]["err"] = "raised"
    /\ pc' = "failed"
    /\ gameRet' = "raised"
    /\ UNCHANGED <<brokerVars, storageVars, adapterVars, engine, board, playLog, published, gameOutcome, runPc,
                   runnerVars, sd, sdReason>>

\* ---------------------------------------------------------------------------
\* SqlStorage (chessnet/sql.py) and FileStorage (chessnet/storage.py)
\* ---------------------------------------------------------------------------

\* The engines storage calls are made with: those of Engines and one that has
\* the id of the first with another image.
StoredEngines ==
    Engines \cup
    { [family |-> "stockfish", variant |-> "main", version |-> "11",
       image |-> "stockfish:latest"] }

EngineIds == { Id(e) : e \in StoredEngines }

\* The games storage calls are made with.
GameIds == {"g1", "g2"}

Games ==
    { [game_id |-> g, timestamp |-> 100, white |-> Id(w), black |-> Id(b),
       outcome |-> None] :
          g \in GameIds,
          w \in {e \in Engines : e.family = "stockfish"},
          b \in {e \in Engines : e.family = "alphazero"} }

Results == {"1-0", "0-1", "1/2-1/2"}

\* Move values (storage.py): a move has the fields san and time_ms.
StoredMoves == { [san |-> m, time_ms |-> t] : m \in Moves, t \in {101, 102} }

\* The argument tuples store_move is called with: the four arguments of
\* store_event and test_moves, and the three of its own signature.
StoreMoveArgs ==
    { <<g, m, "fen", i>> : g \in GameIds, m \in StoredMoves,
                           i \in { Id(e) : e \in Engines } }
    \cup { <<m, "fen", i>> : m \in StoredMoves, i \in { Id(e) : e \in Engines } }

\* A storage call and its result: the store, the operation, its key
\* argument, how it ended, and the rows or moves it returned.
Ret(store, op, arg, status, rows, moves) ==
    [store |-> store, op |-> op, arg |-> arg, status |-> status,
     rows |-> rows, moves |-> moves]

NoCall == Ret(None, None, <<>>, None, {}, <<>>)

\* SqlStorage._store_engine / _load_engine
StoreEngineRow(e) ==
    [engine_id |-> Id(e), family |-> e.family, variant |-> e.variant,
     version |-> e.version, image |-> e.image]

LoadEngine(row) ==
    [family |-> row.family, variant |-> row.variant, version |-> row.version,
     image |-> row.image]

\* SqlStorage._store_game / _load_game
StoreGameRow(game) ==
    [game_id |-> game.game_id, timestamp |-> game.timestamp,
     white |-> game.white, black |-> game.black, outcome |-> game.outcome]

LoadGame(row) ==
    [game_id |-> row.game_id, timestamp |-> row.timestamp,
     white |-> row.white, black |-> row.black, outcome |-> row.outcome]

\* SqlStorage._load_move
LoadMove(row) == [san |-> row.san, timestamp |-> row.timestamp]

\* insert(table) into a table with a primary key.
Insert(table, key, row) ==
    [k \in DOMAIN table \cup {key} |-> IF k = key THEN row ELSE table[k]]

\* delete(table).where(key column == key)
Delete(table, key) == [k \in DOMAIN table \ {key} |-> table[k]]

\* The rows of a table.
Rows(table) == { table[k] : k \in DOMAIN table }

\* list_engines, list_games and moves_in_game return an async generator over
\* conn.stream(...) from inside `async with self.db.begin() as conn`: no row
\* has been fetched when the connection is closed on the way out.  What the
\* caller's iteration then gets depends on the driver: the rows the statement
\* selected, or an error of the closed connection.
StreamOutcomes == {"ok", "closed"}

\* SqlStorage.store_engine: the insert fails on a primary key already there.
StoreEngine(e) ==
    LET row == StoreEngineRow(e) IN
    IF row.engine_id \in DOMAIN engines_table
    THEN /\ ret' = Ret("sql", "store_engine", Id(e), "IntegrityError", {}, <<>>)
         /\ UNCHANGED engines_table
    ELSE /\ engines_table' = Insert(engines_table, row.engine_id, row)
         /\ ret' = Ret("sql", "store_engine", Id(e), "ok", {}, <<>>)

\* SqlStorage.get_engine: raises unless exactly one row has the id.
GetEngine(engine_id) ==
    LET engines == { LoadEngine(row) :
                       row \in { x \in Rows(engines_table) :
                                    x.engine_id = engine_id } }
    IN  /\ ret' = IF Cardinality(engines) # 1
                  THEN Ret("sql", "get_engine", engine_id, "Exception", {}, <<>>)
                  ELSE Ret("sql", "get_engine", engine_id, "ok", engines, <<>>)
        /\ UNCHANGED engines_table

\* SqlStorage.delete_engine
DeleteEngine(engine_id) ==
    /\ engines_table' = Delete(engines_table, engine_id)
    /\ ret' = Ret("sql", "delete_engine", engine_id, "ok", {}, <<>>)

\* SqlStorage.list_engines
ListEngines ==
    /\ \E o \in StreamOutcomes :
          ret' = IF o = "ok"
                 THEN Ret("sql", "list_engines", <<>>, "ok",
                          { LoadEngine(row) : row \in Rows(engines_table) }, <<>>)
                 ELSE Ret("sql", "list_engines", <<>>, "closed", {}, <<>>)
    /\ UNCHANGED engines_table

\* SqlStorage.list_games
ListGames ==
    /\ \E o \in StreamOutcomes :
          ret' = IF o = "ok"
                 THEN Ret("sql", "list_games", <<>>, "ok",
                          { LoadGame(row) : row \in Rows(games_table) }, <<>>)
                 ELSE Ret("sql", "list_games", <<>>, "closed", {}, <<>>)
    /\ UNCHANGED games_table

\* SqlStorage.store_game: values(**self.store_game(game)) unpacks the
\* coroutine of a second store_game call, not the dict of _store_game: a
\* TypeError before any statement is executed.
StoreGame(game) ==
    /\ ret' = Ret("sql", "store_game", <<game.game_id>>, "TypeError", {}, <<>>)
    /\ UNCHANGED games_table

\* SqlStorage.finish_game: `update` is not among the names imported from
\* sqlalchemy: a NameError before any statement is executed.
FinishGame(game_id, outcome) ==
    /\ ret' = Ret("sql", "finish_game", <<game_id>>, "NameError", {}, <<>>)
    /\ UNCHANGED games_table

\* SqlStorage.get_game: _load_game(await result.first()); first() is None
\* when no row has the id.
GetGame(game_id) ==
    /\ ret' = IF game_id \in DOMAIN games_table
              THEN Ret("sql", "get_game", <<game_id>>, "ok",
                       {LoadGame(games_table[game_id])}, <<>>)
              ELSE Ret("sql", "get_game", <<game_id>>, "AttributeError", {}, <<>>)
    /\ UNCHANGED games_table

\* The game id a store_move call is about: the first of four arguments.
MoveGame(args) == IF Len(args) = 4 THEN <<args[1]>> ELSE <<>>

\* SqlStorage.store_move(move, fen_before, engine_id): a call with four
\* arguments is a TypeError; with three, _store_move reads move.timestamp,
\* which a Move does not have, and its row has no game_id.
StoreMove(args) ==
    IF Len(args) # 3
    THEN /\ ret' = Ret("sql", "store_move", MoveGame(args), "TypeError", {}, <<>>)
         /\ UNCHANGED moves_table
    ELSE LET move == args[1] IN
         IF "timestamp" \notin DOMAIN move
         THEN /\ ret' = Ret("sql", "store_move", MoveGame(args),
                            "AttributeError", {}, <<>>)
              /\ UNCHANGED moves_table
         ELSE \* game_id is nullable=False and the row has none
              /\ ret' = Ret("sql", "store_move", MoveGame(args),
                            "IntegrityError", {}, <<>>)
              /\ UNCHANGED moves_table

\* SqlStorage.moves_in_game: san and timestamp of the rows of the game, in
\* the order of the table (the select has no order_by).
MovesInGame(game_id) ==
    /\ \E o \in StreamOutcomes :
          ret' = IF o = "ok"
                 THEN Ret("sql", "moves_in_game", <<game_id>>, "ok", {},
                          [i \in DOMAIN SelectSeq(moves_table,
                                          LAMBDA row : row.game_id = game_id) |->
                              LoadMove(SelectSeq(moves_table,
                                          LAMBDA row : row.game_id = game_id)[i])])
                 ELSE Ret("sql", "moves_in_game", <<game_id>>, "closed", {}, <<>>)
    /\ UNCHANGED moves_table

\* FileStorage.store_engine
FileStoreEngine(e) ==
    IF Id(e) \in DOMAIN data
    THEN /\ ret' = Ret("file", "store_engine", Id(e), "Exception", {}, <<>>)
         /\ UNCHANGED data
    ELSE /\ data' = Insert(data, Id(e), e)
         /\ ret' = Ret("file", "store_engine", Id(e), "ok", {}, <<>>)

\* FileStorage.get_engine
FileGetEngine(engine_id) ==
    /\ ret' = IF engine_id \notin DOMAIN data
              THEN Ret("file", "get_engine", engine_id, "Exception", {}, <<>>)
              ELSE Ret("file", "get_engine", engine_id, "ok",
                       {data[engine_id]}, <<>>)
    /\ UNCHANGED data

\* FileStorage.delete_engine: `del self.data.engines[uuid]` reads an attribute
\* of the dict self.data: an AttributeError, nothing is deleted.
FileDeleteEngine(engine_id) ==
    /\ ret' = Ret("file", "delete_engine", engine_id, "AttributeError", {}, <<>>)
    /\ UNCHANGED data

\* FileStorage.list_engines
FileListEngines ==
    /\ ret' = Ret("file", "list_engines", <<>>, "ok", Rows(data), <<>>)
    /\ UNCHANGED data

\* The storage of the server when a game is requested: the engines are
\* registered, no game and no move is stored.
Registered ==
    [k \in { Id(e) : e \in Engines } |->
        StoreEngineRow(CHOOSE e \in Engines : Id(e) = k)]

StorageAtPlay ==
    /\ engines_table = Registered
    /\ games_table = [k \in {} |-> <<>>]
    /\ moves_table = <<>>
    /\ data = [k \in {} |-> <<>>]
    /\ ret = NoCall
    /\ delivered = 0
    /\ inflight = {}

\* ---------------------------------------------------------------------------
\* ProtocolAdapter and TransportAdapter (chessnet/runner.py)
\* ---------------------------------------------------------------------------

\* No connection has been made: create_connection has built the
\* ProtocolAdapter of each runner, no TransportAdapter exists yet.
AdapterIdle ==
    /\ conn = [c \in Sides |-> "new"]
    /\ alive = [c \in {} |-> TRUE]
    /\ driver = [c \in Sides |-> <<>>]
    /\ returncode = [c \in Sides |-> "unasked"]

\* TransportAdapter.get_returncode: `return None if self.alive else 0`
\* (the exit code 0 is written "0").
Returncode(a) == IF a THEN None ELSE "0"

\* A call the ProtocolAdapter forwards to its UciProtocol, with what the
\* transport it was handed answers to get_returncode() during the call.
Notification(call, code) == [call |-> call, returncode |-> code]

\* The pipe_data_received calls forwarded on connection c so far.
DataSeen(c) == SelectSeq(driver[c], LAMBDA n : n.call = "pipe_data_received")

adapterFrame == <<gameVars, brokerVars, storageVars>>

\* ProtocolAdapter.connection_made: a TransportAdapter is created around the
\* socket (alive = True) and handed to the protocol.
ConnectionMade(c) ==
    /\ conn[c] = "new"
    /\ conn' = [conn EXCEPT ![c] = "open"]
    /\ alive' = [x \in DOMAIN alive \cup {c} |-> IF x = c THEN TRUE ELSE alive[x]]
    /\ driver' = [driver EXCEPT ![c] =
                     Append(@, Notification("connection_made", Returncode(alive'[c])))]
    /\ UNCHANGED <<returncode, adapterFrame>>

\* ProtocolAdapter.data_received: forwarded as pipe_data_received(1, data).
DataReceived(c) ==
    /\ conn[c] = "open"
    /\ Len(DataSeen(c)) < MaxData
    /\ driver' = [driver EXCEPT ![c] =
                     Append(@, Notification("pipe_data_received", Returncode(alive[c])))]
    /\ UNCHANGED <<conn, alive, returncode, adapterFrame>>

\* TransportAdapter.get_returncode is called on the adapter of connection c.
Get_returncode(c) ==
    /\ c \in DOMAIN alive
    /\ returncode' = [returncode EXCEPT ![c] = Returncode(alive[c])]
    /\ UNCHANGED <<conn, alive, driver, adapterFrame>>

\* TransportAdapter.close: the socket is closed; the event loop will report
\* the loss of the connection.
Close(c) ==
    /\ conn[c] = "open"
    /\ conn' = [conn EXCEPT ![c] = "closing"]
    /\ UNCHANGED <<alive, driver, returncode, adapterFrame>>

\* A variant of ConnectionLost that forwards the loss to the protocol before
\* it marks the adapter.
ConnectionLost_ForwardsFirst(c) ==
    /\ conn[c] \in {"open", "closing"}
    /\ conn' = [conn EXCEPT ![c] = "lost"]
    /\ driver' = [driver EXCEPT ![c] =
                     Append(@, Notification("connection_lost", Returncode(alive[c])))]
    /\ alive' = [alive EXCEPT ![c] = FALSE]
    /\ UNCHANGED <<returncode, adapterFrame>>

\* ProtocolAdapter.connection_lost: `self.transport.alive = False`, then the
\* loss is forwarded to the protocol.
ConnectionLost(c) ==
    /\ conn[c] \in {"open", "closing"}
    /\ conn' = [conn EXCEPT ![c] = "lost"]
    /\ alive' = [alive EXCEPT ![c] = FALSE]
    /\ driver' = [driver EXCEPT ![c] =
                     Append(@, Notification("connection_lost", Returncode(alive'[c])))]
    /\ UNCHANGED <<returncode, adapterFrame>>

\* ---------------------------------------------------------------------------
\* Spec: one game
\* ---------------------------------------------------------------------------

\* Spec follows the events up to broker.publish; what the broker does with
\* them is SpecBroker's part, whose variables rest here.
BrokerIdle ==
    /\ subscriptions = [c \in {} |-> <<>>]
    /\ tasks = <<>>
    /\ lastInvoked = [sub |-> [handle |-> 0, channel |-> None, typs |-> {}],
                      event |-> [typ |-> None, seq |-> 0, channel |-> None],
                      raised |-> FALSE]
    /\ pubCount = 0
    /\ crashed = FALSE
    /\ nextHandle = 0

Init ==
    /\ engine \in [Sides -> Engines]
    /\ pc = "init"
    /\ board = NewBoard
    /\ playLog = <<>>
    /\ published = <<>>
    /\ gameRet = "pending"
    /\ gameOutcome = None
    /\ runPc = [r \in Sides |-> "idle"]
    /\ runErr = [r \in Sides |-> "none"]
    /\ running_engine = [r \in Sides |-> None]
    /\ protocol = [r \in Sides |-> None]
    /\ poll = [r \in Sides |-> 0]
    /\ lastStatus = [r \in Sides |-> "none"]
    /\ templates \in [Families -> TemplateStates]
    /\ launched = [r \in Sides |-> 0]
    /\ stopReq = [r \in Sides |-> 0]
    /\ sd = [r \in Sides |-> [g \in Sites |-> "none"]]
    /\ sdReason = [r \in Sides |-> [g \in Sites |-> NoReason]]
    /\ BrokerIdle
    /\ StorageAtPlay
    /\ AdapterIdle

Next ==
    \/ \E r \in Sides : Describe(r)
    \/ \E r \in Sides : Register(r)
    \/ \E r \in Sides : RunTask(r)
    \/ \E r \in Sides : Poll(r)
    \/ \E r \in Sides : PollTimeout(r)
    \/ \E r \in Sides : Connect(r)
    \/ \E r \in Sides : Initialize(r)
    \/ \E r \in Sides, g \in Sites : StopEngine(r, g)
    \/ PlayStart
    \/ GatherRunOk
    \/ GatherRunFail
    \/ \E side \in Sides : PlayRaises(side)
    \/ \E side \in Sides : PlayNone(side)
    \/ \E side \in Sides : PlayMove(side)
    \/ \E g \in {"ok", "err"} : GatherShutdownDone(g)
    \/ GatherShutdownRaiseOk
    \/ GatherShutdownRaiseErr

Spec == Init /\ [][Next]_vars

\* ---------------------------------------------------------------------------
\* Broker (chessnet/events.py) and the event loop that runs its tasks
\* ---------------------------------------------------------------------------

\* EventType
Kinds == {"START_GAME", "MAKE_MOVE", "END_GAME"}

\* The channels in use: two game ids and the wildcard.
Channels == {"g1", "g2", "*"}

\* The channels events are published on: a game id and the wildcard itself.
PublishChannels == {"g1", "*"}

\* The kinds of the events published (END_GAME is filtered like MAKE_MOVE by
\* the kind-sets below).
PublishedKinds == {"START_GAME", "MAKE_MOVE"}

\* The kind-sets subscribers register with.
TypSets == { {"START_GAME"}, Kinds }

\* self.subscriptions.get(channel, {}).values(): the subscriptions of the
\* channel in insertion order.
Get(subs, channel) ==
    IF channel \in DOMAIN subs THEN subs[channel] ELSE <<>>

\* A variant of Accept that does not filter by kind.
Accept_AnyKind(sub, event) == TRUE

\* Subscription.accept: the callback is awaited iff the kind is accepted.
Accept(sub, event) == event.typ \in sub.typs

\* A variant of CreateTask that runs the newest task first.
CreateTask_Front(queue, task) == <<task>> \o queue

\* asyncio.create_task: the task is put at the end of the ready queue.
CreateTask(queue, task) == Append(queue, task)

\* The tasks one loop of publish creates, one per subscription of the channel.
RECURSIVE ScheduleAll(_, _, _)
ScheduleAll(queue, subs, event) ==
    IF subs = <<>> THEN queue
    ELSE ScheduleAll(CreateTask(queue, [sub |-> Head(subs), event |-> event]),
                     Tail(subs), event)

\* Broker.publish: first the subscriptions of the channel, then those of "*".
PublishTasks(queue, subs, channel, event) ==
    ScheduleAll(ScheduleAll(queue, Get(subs, channel), event),
                Get(subs, "*"), event)

\* Broker.publish(channel, event); the event is numbered by its publish call
\* and remembers the channel it was published on.
Publish(channel, typ) ==
    /\ pubCount < MaxPublish
    /\ LET event == [typ |-> typ, seq |-> pubCount + 1, channel |-> channel]
       IN  tasks' = PublishTasks(tasks, subscriptions, channel, event)
    /\ pubCount' = pubCount + 1
    /\ UNCHANGED <<gameVars, storageVars, adapterVars, subscriptions, lastInvoked, crashed, nextHandle>>

\* A variant of Subscribe without the `if channel not in self.subscriptions`
\* test: the channel's dict is created anew on every call.
Subscribe_ReplacesChannel(channel, typs) ==
    /\ nextHandle < 1 + MaxSubs
    /\ LET handle == nextHandle + 1
           sub == [handle |-> handle, channel |-> channel, typs |-> typs]
       IN  /\ subscriptions' =
                [c \in DOMAIN subscriptions \cup {channel} |->
                    IF c = channel THEN <<sub>> ELSE subscriptions[c]]
           /\ nextHandle' = handle
    /\ UNCHANGED <<gameVars, storageVars, adapterVars, tasks, lastInvoked, pubCount, crashed>>

\* Broker.subscribe(channel, typs, callback): a fresh handle, the channel's
\* dict is created when missing.  At most MaxSubs subscriptions are added to
\* the one the server starts with.
Subscribe(channel, typs) ==
    /\ nextHandle < 1 + MaxSubs
    /\ LET handle == nextHandle + 1
           sub == [handle |-> handle, channel |-> channel, typs |-> typs]
       IN  /\ subscriptions' =
                [c \in DOMAIN subscriptions \cup {channel} |->
                    IF c = channel THEN Append(Get(subscriptions, c), sub)
                    ELSE subscriptions[c]]
           /\ nextHandle' = handle
    /\ UNCHANGED <<gameVars, storageVars, adapterVars, tasks, lastInvoked, pubCount, crashed>>

\* A variant of Without that deletes the whole channel holding the handle.
Without_WholeChannel(subs, handle) ==
    IF \E i \in DOMAIN subs : subs[i].handle = handle THEN <<>> ELSE subs

\* del self.subscriptions[channel][handle]
Without(subs, handle) == SelectSeq(subs, LAMBDA s : s.handle # handle)

\* Broker.unsubscribe(handle): the handle is deleted from every channel that
\* holds it and channels left empty are deleted.
Unsubscribe(handle) ==
    /\ LET kept == { c \in DOMAIN subscriptions :
                        Without(subscriptions[c], handle) # <<>> }
       IN  subscriptions' = [c \in kept |-> Without(subscriptions[c], handle)]
    /\ UNCHANGED <<gameVars, storageVars, adapterVars, tasks, lastInvoked, pubCount, crashed, nextHandle>>

\* No callback has been invoked yet.
NoInvocation ==
    [sub |-> [handle |-> 0, channel |-> None, typs |-> {}],
     event |-> [typ |-> None, seq |-> 0, channel |-> None],
     raised |-> FALSE]

\* A variant of RunAccept in which a raising callback takes the event loop's
\* other tasks down with it.
RunAccept_CrashesBus ==
    /\ tasks # <<>>
    /\ LET t == Head(tasks) IN
       IF t.event.typ \in t.sub.typs
       THEN \E raises \in BOOLEAN :
               /\ lastInvoked' =
                     [sub |-> t.sub, event |-> t.event, raised |-> raises]
               /\ crashed' = (crashed \/ raises)
               /\ tasks' = IF raises THEN <<>> ELSE Tail(tasks)
       ELSE /\ UNCHANGED <<lastInvoked, crashed>>
            /\ tasks' = Tail(tasks)
    /\ UNCHANGED <<gameVars, storageVars, adapterVars, subscriptions, pubCount, nextHandle>>

\* The event loop runs the task at the head of the ready queue: accept awaits
\* the callback for an accepted kind, and the callback returns or raises
\* (store_event raises when its storage call does); an exception stays in the
\* finished task.
RunAccept ==
    /\ tasks # <<>>
    /\ LET t == Head(tasks) IN
       IF Accept(t.sub, t.event)
       THEN \E raises \in BOOLEAN :
               /\ lastInvoked' =
                     [sub |-> t.sub, event |-> t.event, raised |-> raises]
               /\ crashed' = (crashed \/ raises)
       ELSE UNCHANGED <<lastInvoked, crashed>>
    /\ tasks' = Tail(tasks)
    /\ UNCHANGED <<gameVars, storageVars, adapterVars, subscriptions, pubCount, nextHandle>>

GameIdle ==
    /\ engine = [r \in Sides |-> CHOOSE e \in Engines : TRUE]
    /\ pc = "init"
    /\ board = NewBoard
    /\ playLog = <<>>
    /\ published = <<>>
    /\ gameRet = "pending"
    /\ gameOutcome = None
    /\ runPc = [r \in Sides |-> "idle"]
    /\ runErr = [r \in Sides |-> "none"]
    /\ running_engine = [r \in Sides |-> None]
    /\ protocol = [r \in Sides |-> None]
    /\ poll = [r \in Sides |-> 0]
    /\ lastStatus = [r \in Sides |-> "none"]
    /\ templates = [f \in Families |-> "none"]
    /\ launched = [r \in Sides |-> 0]
    /\ stopReq = [r \in Sides |-> 0]
    /\ sd = [r \in Sides |-> [g \in Sites |-> "none"]]
    /\ sdReason = [r \in Sides |-> [g \in Sites |-> NoReason]]

\* The registry of the server once the module is loaded: store_event is
\* subscribed on "*" for every kind.
ServerSubscriptions ==
    [c \in {"*"} |-> <<[handle |-> 1, channel |-> "*", typs |-> Kinds]>>]

InitBroker ==
    /\ GameIdle
    /\ StorageAtPlay
    /\ AdapterIdle
    /\ subscriptions = ServerSubscriptions
    /\ tasks = <<>>
    /\ lastInvoked = NoInvocation
    /\ pubCount = 0
    /\ crashed = FALSE
    /\ nextHandle = 1

NextBroker ==
    \/ \E c \in Channels, T \in TypSets : Subscribe(c, T)
    \/ \E h \in 1..nextHandle : Unsubscribe(h)
    \/ \E c \in PublishChannels, k \in PublishedKinds : Publish(c, k)
    \/ RunAccept

SpecBroker == InitBroker /\ [][NextBroker]_vars

\* ---------------------------------------------------------------------------
\* SpecStorage: the storage calls, on a fresh database and a fresh file
\* ---------------------------------------------------------------------------

sqlEngineFrame == <<gameVars, brokerVars, adapterVars, games_table, moves_table,
                    data, delivered, inflight>>

sqlGameFrame == <<gameVars, brokerVars, adapterVars, engines_table, moves_table,
                  data, delivered, inflight>>

sqlMoveFrame == <<gameVars, brokerVars, adapterVars, engines_table, games_table,
                  data, delivered, inflight>>

fileFrame == <<gameVars, brokerVars, adapterVars, engines_table, games_table,
               moves_table, delivered, inflight>>

Sql_store_engine(e) == StoreEngine(e) /\ UNCHANGED sqlEngineFrame

Sql_get_engine(engine_id) == GetEngine(engine_id) /\ UNCHANGED sqlEngineFrame

Sql_delete_engine(engine_id) == DeleteEngine(engine_id) /\ UNCHANGED sqlEngineFrame

Sql_list_engines == ListEngines /\ UNCHANGED sqlEngineFrame

Sql_list_games == ListGames /\ UNCHANGED sqlGameFrame

Sql_store_game(game) == StoreGame(game) /\ UNCHANGED sqlGameFrame

Sql_finish_game(game_id, outcome) ==
    FinishGame(game_id, outcome) /\ UNCHANGED sqlGameFrame

Sql_get_game(game_id) == GetGame(game_id) /\ UNCHANGED sqlGameFrame

Sql_store_move(args) == StoreMove(args) /\ UNCHANGED sqlMoveFrame

Sql_moves_in_game(game_id) == MovesInGame(game_id) /\ UNCHANGED sqlMoveFrame

File_store_engine(e) == FileStoreEngine(e) /\ UNCHANGED fileFrame

File_get_engine(engine_id) == FileGetEngine(engine_id) /\ UNCHANGED fileFrame

File_delete_engine(engine_id) == FileDeleteEngine(engine_id) /\ UNCHANGED fileFrame

File_list_engines == FileListEngines /\ UNCHANGED fileFrame

\* SqlStorage after initialize() on an empty database, FileStorage on a path
\* that does not exist yet.
InitStorage ==
    /\ GameIdle
    /\ BrokerIdle
    /\ AdapterIdle
    /\ engines_table = [k \in {} |-> <<>>]
    /\ games_table = [k \in {} |-> <<>>]
    /\ moves_table = <<>>
    /\ data = [k \in {} |-> <<>>]
    /\ ret = NoCall
    /\ delivered = 0
    /\ inflight = {}

NextStorage ==
    \/ \E e \in StoredEngines : Sql_store_engine(e)
    \/ \E i \in EngineIds : Sql_get_engine(i)
    \/ \E i \in EngineIds : Sql_delete_engine(i)
    \/ Sql_list_engines
    \/ Sql_list_games
    \/ \E game \in Games : Sql_store_game(game)
    \/ \E g \in GameIds, o \in Results : Sql_finish_game(g, o)
    \/ \E g \in GameIds : Sql_get_game(g)
    \/ \E args \in StoreMoveArgs : Sql_store_move(args)
    \/ \E g \in GameIds : Sql_moves_in_game(g)
    \/ \E e \in StoredEngines : File_store_engine(e)
    \/ \E i \in EngineIds : File_get_engine(i)
    \/ \E i \in EngineIds : File_delete_engine(i)
    \/ File_list_engines

SpecStorage == InitStorage /\ [][NextStorage]_vars

\* ---------------------------------------------------------------------------
\* SpecServer: one game and the server's subscriber store_event
\* ---------------------------------------------------------------------------

\* The broker hands store_event (server.py) every published event, one task
\* per event, and the event loop starts the tasks in publish order.  A task
\* runs up to the first suspension of its storage call: store_game and
\* finish_game suspend in `async with self.db.begin()`; the store_move call
\* raises while its arguments are bound, before it awaits anything.
StoreEventBegin ==
    /\ delivered < Len(published)
    /\ LET event == published[delivered + 1] IN
       IF event.typ = "MAKE_MOVE"
       THEN /\ StoreMove(<<event.game_id, event.move, event.fen_before,
                           event.engine_id>>)
            /\ UNCHANGED <<games_table, inflight>>
       ELSE /\ inflight' = inflight \cup {delivered + 1}
            /\ UNCHANGED <<games_table, moves_table, ret>>
    /\ delivered' = delivered + 1
    /\ UNCHANGED <<gameVars, brokerVars, adapterVars, engines_table, data>>

\* The database resumes the suspended store_event task of the i-th event:
\* the body of its `async with` runs; an exception ends the task.
StoreEventEnd(i) ==
    /\ i \in inflight
    /\ LET event == published[i] IN
       IF event.typ = "START_GAME"
       THEN StoreGame(event.game)
       ELSE FinishGame(event.game_id, event.outcome)
    /\ inflight' = inflight \ {i}
    /\ UNCHANGED <<gameVars, brokerVars, adapterVars, engines_table, moves_table,
                   data, delivered>>

\* The positions of the published events of one game: StartGame, a MakeMove
\* per play call at most, EndGame.
EventIndices == 1..(MaxCalls + 2)

NextServer ==
    \/ Next
    \/ StoreEventBegin
    \/ \E i \in EventIndices : StoreEventEnd(i)

SpecServer == Init /\ [][NextServer]_vars

\* ---------------------------------------------------------------------------
\* SpecAdapter: the connections of the two runners and their adapters
\* ---------------------------------------------------------------------------

InitAdapter ==
    /\ GameIdle
    /\ BrokerIdle
    /\ StorageAtPlay
    /\ AdapterIdle

NextAdapter ==
    \/ \E c \in Sides : ConnectionMade(c)
    \/ \E c \in Sides : DataReceived(c)
    \/ \E c \in Sides : Get_returncode(c)
    \/ \E c \in Sides : Close(c)
    \/ \E c \in Sides : ConnectionLost(c)

SpecAdapter == InitAdapter /\ [][NextAdapter]_vars

\* Spec with the progress the worker thread of run_engine makes: a poll that
\* can be made is made, an exhausted schedule raises.
SpecLive ==
    /\ Spec
    /\ \A r \in Sides : WF_vars(Poll(r)) /\ WF_vars(PollTimeout(r))

\* ---------------------------------------------------------------------------
\* Properties of the orchestration (checked under Spec)
\* ---------------------------------------------------------------------------

EventsOf(typ) == SelectSeq(published, LAMBDA e : e.typ = typ)

\* The play calls that returned a move, in call order: the i-th of them is the
\* origin of the i-th MakeMove event.
MovesPlayed == SelectSeq(playLog, LAMBDA c : c.ret = "move")

\* gather(white.run(), black.run()) has returned: both runners are started.
BothStarted == pc \notin {"init", "starting"} /\ \A r \in Sides : runPc[r] = "done"

\* The shutdown calls play_game has made on runner r.
GameShutdowns(r) == { g \in {"ok", "err"} : sd[r][g] # "none" }

\* A play call has raised.
PlayHasRaised == \E i \in DOMAIN playLog : playLog[i].ret = "raise"

\* play_game failed in its start phase: a run() failed and gather raised it.
StartFailed == gameRet = "raised" /\ \E r \in Sides : runPc[r] = "failed"

\* C1: once play_game has started both runners and has returned, shutdown has
\* been called exactly once on each runner and every one of these calls has
\* completed.
C1_ShutdownExactlyOnce ==
    (BothStarted /\ gameRet = "returned") =>
        \A r \in Sides :
            /\ Cardinality(GameShutdowns(r)) = 1
            /\ \A g \in GameShutdowns(r) : sd[r][g] # "pending"

\* C2: when run_task launched an instance and the readiness poll exhausted its
\* schedule, run() has failed, stop_task has been attempted exactly once for
\* the instance and the runner holds no handle.
C2_TimeoutStopsLaunched ==
    \A r \in Sides :
        (runPc[r] = "failed" /\ runErr[r] = "timeout") =>
            /\ launched[r] = 1
            /\ stopReq[r] = 1
            /\ running_engine[r] = None

\* C3: once a play call has raised, it is the last play call, both runners
\* have a shutdown call whose reason carries that error, play_game returns no
\* outcome, _play ends with an error and no EndGame event is published.
C3_PlayErrorAborts ==
    PlayHasRaised =>
        LET last == playLog[Len(playLog)] IN
        /\ last.ret = "raise"
        /\ \A i \in 1..(Len(playLog) - 1) : playLog[i].ret # "raise"
        /\ \A r \in Sides :
              /\ sd[r]["err"] # "none"
              /\ sdReason[r]["err"].kind = "Game aborted due to error"
              /\ sdReason[r]["err"].err = last.err
        /\ gameRet = "returned" => gameOutcome = None
        /\ pc \in {"shutdown_err", "failed"}
        /\ Len(EventsOf("END_GAME")) = 0

C3_Witness ==
    /\ PlayHasRaised
    /\ pc = "failed"
    /\ gameRet = "returned"
    /\ Len(EventsOf("MAKE_MOVE")) > 0

\* C4: a runner whose run() has failed with an instance launched has called
\* shutdown and a stop request has been sent for the instance.
C4_FailedRunStopsInstance ==
    \A r \in Sides :
        (runPc[r] = "failed" /\ launched[r] > 0) =>
            /\ sd[r]["run"] # "none"
            /\ stopReq[r] > 0

\* C6: when a run() fails in the start phase, play_game raises, no StartGame
\* event has been published, no play call was made and no MakeMove event
\* was published.
C6_StartFailurePublishesNothing ==
    StartFailed =>
        /\ pc = "failed"
        /\ Len(EventsOf("START_GAME")) = 0
        /\ Len(playLog) = 0
        /\ Len(EventsOf("MAKE_MOVE")) = 0

\* C7: at most one EndGame event is published for the game; when there is one,
\* play_game has returned a non-absent outcome, the board is terminal, and the
\* event carries the result string of that position.
C7_EndGameOnce ==
    LET ends == EventsOf("END_GAME") IN
    /\ Len(ends) <= 1
    /\ \A i \in DOMAIN ends :
          /\ ends[i].game_id = GameId
          /\ gameRet = "returned"
          /\ gameOutcome # None
          /\ gameOutcome = board.outcome
          /\ ends[i].outcome = "1-0" <=> board.outcome = "white_wins"
          /\ ends[i].outcome = "0-1" <=> board.outcome = "black_wins"
          /\ ends[i].outcome = "1/2-1/2" <=> board.outcome = "draw"

C7_Witness ==
    /\ pc = "done"
    /\ Len(EventsOf("END_GAME")) = 1
    /\ published[Len(published)].outcome = "0-1"

\* C8: the i-th MakeMove event carries the id of the engine of the runner
\* whose play call returned the i-th move.
C8_MoveAttribution ==
    LET mm == EventsOf("MAKE_MOVE") IN
    /\ Len(mm) = Len(MovesPlayed)
    /\ \A i \in DOMAIN mm : mm[i].engine_id = Id(engine[MovesPlayed[i].side])

\* C11: a completed shutdown leaves the runner without an instance handle, and
\* no runner's instance ever gets a second stop request: a repeated shutdown
\* is a no-op.
C11_ShutdownIdempotent ==
    \A r \in Sides :
        /\ (\E g \in Sites : sd[r][g] = "ok") => running_engine[r] = None
        /\ stopReq[r] <= 1

\* C12: play delegates to the protocol session on a runner whose run() has
\* completed successfully, and fails on a runner whose run() was never called
\* or has failed.
C12_PlayNeedsSuccessfulRun ==
    \A r \in Sides :
        /\ runPc[r] = "done" => PlayDelegates(r)
        /\ runPc[r] \in {"idle", "failed"} => ~PlayDelegates(r)

\* C13: once a poll of _wait_for_ready has seen the instance STOPPED, the
\* provisioning has failed at that poll with the stop as its error: it is not
\* polling on.
C13_StoppedFailsFast ==
    \A r \in Sides :
        lastStatus[r] = "STOPPED" =>
            /\ runPc[r] = "failed"
            /\ runErr[r] = "STOPPED"

\* C14: _wait_for_ready makes at most NumSleeps polls, one per step of the
\* schedule; it is left only by returning the RunningEngine at a poll that saw
\* the instance ready, by the error of a poll, or by the timeout error once
\* all NumSleeps polls have been made; a poll that saw the instance ready is
\* never followed by another; and the loop is always left.
C14_WaitForReadyTerminates ==
    /\ [](\A r \in Sides :
            /\ poll[r] <= NumSleeps
            /\ lastStatus[r] = "READY" =>
                  /\ runPc[r] # "polling"
                  /\ runErr[r] # "timeout")
    /\ [][\A r \in Sides :
            /\ poll'[r] # poll[r] =>
                  /\ runPc[r] = "polling"
                  /\ poll'[r] = poll[r] + 1 \/ runPc'[r] # "polling"
            /\ (runPc[r] = "polling" /\ runPc'[r] # "polling") =>
                  \/ /\ lastStatus'[r] = "READY"
                     /\ runPc'[r] = "connecting"
                     /\ running_engine'[r] = Arn(r)
                  \/ /\ runPc'[r] = "failed"
                     /\ runErr'[r] = "timeout"
                     /\ poll[r] = NumSleeps
                     /\ lastStatus'[r] = lastStatus[r]
                  \/ /\ runPc'[r] = "failed"
                     /\ runErr'[r] = lastStatus'[r]
                     /\ lastStatus'[r] \in
                           {"API_ERROR", "RUNNING_NO_ENI", "RUNNING_NO_PUBLIC_IP"}
         ]_vars
    /\ \A r \in Sides : (runPc[r] = "polling") ~> (runPc[r] # "polling")

C14_Witness ==
    /\ runPc["white"] = "failed"
    /\ runErr["white"] = "timeout"
    /\ lastStatus["white"] = "RUNNING_DETACHED"
    /\ lastStatus["black"] = "READY"
    /\ runPc["black"] = "done"

\* ---------------------------------------------------------------------------
\* Properties of the broker (checked under SpecBroker)
\* ---------------------------------------------------------------------------

\* The step is a publish call.
PublishStep == pubCount' = pubCount + 1

\* The step runs the task at the head of the ready queue.
RunStep == Len(tasks') < Len(tasks)

\* The step runs a task whose accept invokes the callback.
InvokeStep == RunStep /\ Accept(Head(tasks).sub, Head(tasks).event)

\* The tasks a step has appended to the ready queue.
NewTasks == SubSeq(tasks', Len(tasks) + 1, Len(tasks'))

Range(seq) == { seq[i] : i \in DOMAIN seq }

\* The subscriptions publish(channel, ...) has to reach: those registered on
\* the channel and those registered on "*".
Reached(channel) ==
    Range(Get(subscriptions, channel)) \cup Range(Get(subscriptions, "*"))

\* The publish step has dispatched an event of channel c to the registry.
DispatchedOn(c) ==
    /\ \A t \in Range(NewTasks) :
          /\ t.event.channel = c
          /\ t.event.seq = pubCount'
          /\ t.sub \in Reached(c)
    /\ \A sub \in Reached(c) : \E t \in Range(NewTasks) : t.sub = sub
    /\ SubSeq(tasks', 1, Len(tasks)) = tasks

\* C5: publish(C, e) schedules an accept task for every subscription on C and
\* on "*" and for no other; a scheduled task invokes the callback when the
\* kind-set holds e's kind and leaves it alone otherwise; so every invocation
\* is of a subscription on the event's channel or on "*" that accepts the kind.
C5_PublishRouting ==
    /\ [](lastInvoked.event.seq > 0 =>
            /\ lastInvoked.sub.channel \in {lastInvoked.event.channel, "*"}
            /\ lastInvoked.event.typ \in lastInvoked.sub.typs)
    /\ [][ /\ PublishStep => \E c \in Channels : DispatchedOn(c)
           /\ RunStep =>
                LET t == Head(tasks) IN
                IF t.event.typ \in t.sub.typs
                THEN /\ lastInvoked'.sub = t.sub
                     /\ lastInvoked'.event = t.event
                ELSE lastInvoked' = lastInvoked ]_vars

C5_Witness ==
    /\ lastInvoked.event.seq = 2
    /\ lastInvoked.sub.channel = "*"
    /\ lastInvoked.event.channel = "g1"
    /\ "g2" \in DOMAIN subscriptions
    /\ tasks = <<>>
    /\ pubCount = 2

\* C9: a publish step runs no callback and takes no task off the queue; a
\* callback that raises takes only its own task off the queue and leaves the
\* registry and the publisher alone; publishes after a failure are dispatched
\* like any other.
C9_FireAndForget ==
    [][ /\ PublishStep =>
              /\ lastInvoked' = lastInvoked
              /\ crashed' = crashed
              /\ SubSeq(tasks', 1, Len(tasks)) = tasks
        /\ (InvokeStep /\ lastInvoked'.raised) =>
              /\ tasks' = Tail(tasks)
              /\ subscriptions' = subscriptions
              /\ pubCount' = pubCount
        /\ (crashed /\ PublishStep) =>
              \E c \in Channels :
                 Len(NewTasks) = Len(Get(subscriptions, c))
                                 + Len(Get(subscriptions, "*")) ]_vars

C9_Witness ==
    /\ crashed
    /\ pubCount = 2
    /\ lastInvoked.event.seq > 0
    /\ lastInvoked.event.seq = 2
    /\ ~lastInvoked.raised
    /\ tasks # <<>>

\* C10: when the callback of a subscription is invoked for an event, no event
\* published earlier on the same channel is still waiting for that callback.
C10_PublishOrder ==
    [][ InvokeStep =>
          LET e == Head(tasks).event
              h == Head(tasks).sub.handle
          IN  \A t \in Range(tasks') :
                 (t.sub.handle = h /\ t.event.channel = e.channel
                    /\ Accept(t.sub, t.event))
                 => t.event.seq >= e.seq ]_vars

C10_Witness ==
    /\ lastInvoked.event.seq > 0
    /\ lastInvoked.event.seq = 1
    /\ \E t \in Range(tasks) :
          /\ t.sub = lastInvoked.sub
          /\ t.event.channel = lastInvoked.event.channel
          /\ t.event.seq = 2
          /\ Accept(t.sub, t.event)

\* The step is an unsubscribe call that removes something.
UnsubscribeStep == subscriptions' # subscriptions /\ nextHandle' = nextHandle

\* The registrations of a registry.
AllSubs(subs) == UNION { Range(subs[c]) : c \in DOMAIN subs }

\* C15: an unsubscribe step removes exactly one registration, from the channel
\* that holds it, keeps every other registration (and their order), leaves no
\* channel with an empty registration set in the registry and leaves the ready
\* queue alone; a publish made later schedules tasks only for registrations
\* that are in the registry, so none for a removed one.
C15_Unsubscribe ==
    /\ [](\A c \in DOMAIN subscriptions : subscriptions[c] # <<>>)
    /\ [][UnsubscribeStep =>
            \E sub \in AllSubs(subscriptions) :
               /\ AllSubs(subscriptions') = AllSubs(subscriptions) \ {sub}
               /\ \A c \in DOMAIN subscriptions' :
                     /\ c \in DOMAIN subscriptions
                     /\ subscriptions'[c] =
                           SelectSeq(subscriptions[c], LAMBDA x : x # sub)
               /\ \A c \in DOMAIN subscriptions \ DOMAIN subscriptions' :
                     subscriptions[c] = <<sub>>
               /\ tasks' = tasks
         ]_vars
    /\ [][PublishStep =>
            \A t \in Range(NewTasks) : t.sub \in AllSubs(subscriptions)]_vars

C15_Witness ==
    /\ nextHandle = 2
    /\ DOMAIN subscriptions = {"*"}
    /\ Len(subscriptions["*"]) = 1
    /\ subscriptions["*"][1].handle = 2
    /\ pubCount = 2
    /\ Len(tasks) = 1
    /\ tasks[1].sub.handle = 2
    /\ tasks[1].event.seq = 2
    /\ lastInvoked.sub.handle = 1

\* The step changes the registry: a subscribe or an unsubscribe call, made by
\* a callback or by anyone else between two steps of the event loop.
MutationStep == subscriptions' # subscriptions

\* C23: subscribe and unsubscribe calls made while accept tasks of an event
\* are waiting never run inside a publish call and never touch the ready queue
\* or the publisher: the tasks already scheduled, also those of a registration
\* that has been removed, still run as scheduled; a subscribe call adds its
\* one registration and keeps every other; a publish made later is dispatched
\* on the registry as the mutations left it; no mutation counts as a callback
\* failure.
C23_MutationDuringDispatch ==
    [][ /\ MutationStep =>
              /\ ~PublishStep
              /\ tasks' = tasks
              /\ lastInvoked' = lastInvoked
              /\ crashed' = crashed
              /\ nextHandle' # nextHandle =>
                    \E sub \in AllSubs(subscriptions') :
                       /\ sub.handle = nextHandle'
                       /\ sub \notin AllSubs(subscriptions)
                       /\ DOMAIN subscriptions' = DOMAIN subscriptions \cup {sub.channel}
                       /\ \A c \in DOMAIN subscriptions' :
                             subscriptions'[c] =
                                IF c = sub.channel
                                THEN Append(Get(subscriptions, c), sub)
                                ELSE subscriptions[c]
        /\ PublishStep =>
              /\ subscriptions' = subscriptions
              /\ \E c \in Channels : DispatchedOn(c)
        /\ RunStep =>
              /\ subscriptions' = subscriptions
              /\ tasks' = Tail(tasks)
              /\ Accept(Head(tasks).sub, Head(tasks).event) =>
                    /\ lastInvoked'.sub = Head(tasks).sub
                    /\ lastInvoked'.event = Head(tasks).event ]_vars

\* While the task of the first event was waiting, a second registration was
\* added and the first was removed; the first event's task is still queued
\* for the removed registration and the second event was dispatched to the
\* new registration only.
C23_Witness ==
    /\ pubCount = 2
    /\ Len(tasks) = 2
    /\ tasks[1].sub.handle = 1
    /\ tasks[1].event.seq = 1
    /\ tasks[1].sub \notin AllSubs(subscriptions)
    /\ tasks[2].sub.handle = 2
    /\ tasks[2].event.seq = 2
    /\ tasks[2].sub \in AllSubs(subscriptions)

\* The tasks of subscription sub among those a step has appended.
ScheduledFor(sub) == { i \in DOMAIN NewTasks : NewTasks[i].sub = sub }

\* C31: a publish call schedules the callback of each registered subscription
\* at most once for its event, whatever the channel.
C31_ScheduledOnce ==
    [][PublishStep =>
         \A sub \in AllSubs(subscriptions) : Cardinality(ScheduledFor(sub)) <= 1]_vars

\* ---------------------------------------------------------------------------
\* Properties of the server with its storage (checked under SpecServer)
\* ---------------------------------------------------------------------------

\* Every play call so far has returned a move.
AllPlaysMoved == \A i \in DOMAIN playLog : playLog[i].ret = "move"

\* C16: once the game has been played to its end with both engines started
\* and every play call returning a move, and store_event has been run to its
\* end for every published event, an EndGame event has been published and the
\* stored game has an outcome that is one of "1-0", "0-1", "1/2-1/2".
C16_StoredOutcome ==
    (pc = "done" /\ BothStarted /\ AllPlaysMoved /\ delivered = Len(published)
       /\ inflight = {})
    =>
        /\ board.outcome # None
        /\ Len(EventsOf("END_GAME")) = 1
        /\ GameId \in DOMAIN games_table
        /\ games_table[GameId].outcome \in Results

\* The step starts the store_event task of the next published event.
BeginStep == delivered' = delivered + 1

\* C29: when the store_move call for a MakeMove event begins, the store_game
\* call for StartGame is not still under way, and when the finish_game call
\* for EndGame begins, no earlier storage call of the game is still under way.
C29_StoreOrder ==
    [][BeginStep =>
         LET event == published[delivered + 1] IN
         /\ event.typ = "MAKE_MOVE" =>
               \A i \in inflight : published[i].typ # "START_GAME"
         /\ event.typ = "END_GAME" => inflight = {}]_vars

\* ---------------------------------------------------------------------------
\* Properties of the storage (checked under SpecStorage)
\* ---------------------------------------------------------------------------

\* The step is a call of operation op on the store.
CallStep(store, op) == ret' # ret /\ ret'.store = store /\ ret'.op = op

\* C17: in both stores, store_engine with an id that is already stored fails
\* and leaves the stored engines unchanged, after delete_engine the id is not
\* stored, and get_engine of an id that is not stored fails.
C17_DuplicateAndDeleted ==
    /\ [][ /\ (CallStep("sql", "store_engine")
                 /\ ret'.arg \in DOMAIN engines_table) =>
                 /\ ret'.status # "ok"
                 /\ engines_table' = engines_table
           /\ (CallStep("file", "store_engine") /\ ret'.arg \in DOMAIN data) =>
                 /\ ret'.status # "ok"
                 /\ data' = data
           /\ CallStep("sql", "delete_engine") =>
                 ret'.arg \notin DOMAIN engines_table'
           /\ CallStep("file", "delete_engine") =>
                 ret'.arg \notin DOMAIN data'
         ]_vars
    /\ []( /\ (ret.store = "sql" /\ ret.op = "get_engine"
                 /\ ret.arg \notin DOMAIN engines_table) => ret.status # "ok"
           /\ (ret.store = "file" /\ ret.op = "get_engine"
                 /\ ret.arg \notin DOMAIN data) => ret.status # "ok" )

\* C18: store_engine of a new id adds that engine and delete_engine removes
\* the engine of that id, each leaving the others alone; list_engines returns
\* exactly the engines stored, and get_engine of a stored id returns the
\* engine that was stored.
C18_ListEngines ==
    /\ [][ /\ (CallStep("sql", "store_engine")
                 /\ ret'.arg \notin DOMAIN engines_table) =>
                 /\ ret'.status = "ok"
                 /\ DOMAIN engines_table' = DOMAIN engines_table \cup {ret'.arg}
                 /\ \A k \in DOMAIN engines_table :
                       engines_table'[k] = engines_table[k]
           /\ CallStep("sql", "delete_engine") =>
                 /\ DOMAIN engines_table' = DOMAIN engines_table \ {ret'.arg}
                 /\ \A k \in DOMAIN engines_table' :
                       engines_table'[k] = engines_table[k]
         ]_vars
    /\ []( /\ (ret.store = "sql" /\ ret.op = "list_engines") =>
                 /\ ret.status = "ok"
                 /\ ret.rows = { e \in StoredEngines :
                                   /\ Id(e) \in DOMAIN engines_table
                                   /\ engines_table[Id(e)].image = e.image }
           /\ (ret.store = "sql" /\ ret.op = "get_engine"
                 /\ ret.arg \in DOMAIN engines_table) =>
                 /\ ret.status = "ok"
                 /\ \E e \in StoredEngines :
                       /\ ret.rows = {e}
                       /\ Id(e) = ret.arg
                       /\ e.image = engines_table[ret.arg].image )

\* C19: store_game of a game that is not stored yet stores it with outcome
\* null; finish_game of a stored game sets its outcome and nothing else;
\* get_game of a stored game returns it.
C19_StoreFinishGame ==
    /\ [][ /\ (CallStep("sql", "store_game")
                 /\ ret'.arg[1] \notin DOMAIN games_table) =>
                 /\ ret'.status = "ok"
                 /\ ret'.arg[1] \in DOMAIN games_table'
                 /\ games_table'[ret'.arg[1]].outcome = None
           /\ (CallStep("sql", "finish_game")
                 /\ ret'.arg[1] \in DOMAIN games_table) =>
                 /\ ret'.status = "ok"
                 /\ \E o \in Results :
                       games_table' =
                          [games_table EXCEPT ![ret'.arg[1]].outcome = o]
         ]_vars
    /\ []((ret.op = "get_game" /\ ret.arg[1] \in DOMAIN games_table) =>
             /\ ret.status = "ok"
             /\ ret.rows = {LoadGame(games_table[ret.arg[1]])})

\* The rows of moves_table that belong to a game.
MovesOf(table, game_id) == SelectSeq(table, LAMBDA row : row.game_id = game_id)

\* C20: a store_move call for a game adds one row to the rows of that game and
\* none to those of another game; moves_in_game returns as many moves as the
\* game has rows, in non-decreasing timestamp order.
C20_MovesInGame ==
    /\ [][ (CallStep("sql", "store_move") /\ Len(ret'.arg) = 1) =>
              \A g \in GameIds :
                 Len(MovesOf(moves_table', g)) =
                    Len(MovesOf(moves_table, g)) + (IF <<g>> = ret'.arg THEN 1 ELSE 0)
         ]_vars
    /\ [](ret.op = "moves_in_game" =>
             /\ ret.status = "ok"
             /\ Len(ret.moves) = Len(MovesOf(moves_table, ret.arg[1]))
             /\ \A i, j \in DOMAIN ret.moves :
                   i <= j => ret.moves[i].timestamp <= ret.moves[j].timestamp)

\* ---------------------------------------------------------------------------
\* Properties of the turn loop (checked under Spec)
\* ---------------------------------------------------------------------------

\* A play call is made in this step; PlayCall is the call.
PlayStep == Len(playLog') = Len(playLog) + 1

PlayCall == playLog'[Len(playLog')]

\* C21: a play call that returns a move publishes exactly one MakeMove event
\* for the game, carrying the FEN of the board as it was before the move, and
\* the board then has the move applied; a play call that returns no move (or
\* raises) publishes nothing and leaves the board as it was.
C21_MakeMovePerMove ==
    [][PlayStep =>
         IF PlayCall.ret = "move"
         THEN /\ Len(published') = Len(published) + 1
              /\ SubSeq(published', 1, Len(published)) = published
              /\ published'[Len(published')].typ = "MAKE_MOVE"
              /\ published'[Len(published')].game_id = GameId
              /\ published'[Len(published')].fen_before = Fen(board)
              /\ published'[Len(published')].fen_before # Fen(board')
              /\ board'.ply = board.ply + 1
         ELSE /\ published' = published
              /\ board' = board]_vars

\* Two moves have been published around a play call that returned no move.
C21_Witness ==
    /\ Len(EventsOf("MAKE_MOVE")) = 2
    /\ \E i \in DOMAIN playLog : playLog[i].ret = "none"
    /\ board.ply = 2

\* C22: once board.outcome() reports a terminal outcome the loop is left: no
\* play call is requested of either runner from then on.
C22_NoPlayAfterOutcome ==
    /\ [](board.outcome # None => pc \notin {"white_turn", "black_turn"})
    /\ [][board.outcome # None => playLog' = playLog]_vars

\* Black's move ended the game: white was not asked again, play_game returned.
C22_Witness ==
    /\ board.outcome # None
    /\ pc = "done"
    /\ Len(playLog) = 2
    /\ playLog[2].side = "black"
    /\ playLog[2].ret = "move"

\* C30: every play call goes to the runner whose colour is the side to move on
\* the local board at the time of the call.
C30_PlayBySideToMove ==
    \A i \in DOMAIN playLog : playLog[i].side = Turn([ply |-> playLog[i].ply])


\* ---------------------------------------------------------------------------
\* Properties of provisioning (checked under Spec)
\* ---------------------------------------------------------------------------

\* _get_or_create_task_definition of runner r has returned.
TemplateResolved(r) ==
    \/ runPc[r] \in {"run_task", "polling", "connecting", "initializing",
                     "run_shutdown", "done"}
    \/ runPc[r] = "failed" /\ runErr[r] # "register_task_definition"

\* run_engine's run_task call of runner r has returned a task.
Launched(r) ==
    \/ runPc[r] \in {"polling", "connecting", "initializing", "run_shutdown",
                     "done"}
    \/ runPc[r] = "failed" /\ runErr[r] \notin {"register_task_definition", "run_task"}

C25_ConcurrentProvision ==
    engine["white"] = engine["black"] =>
       \A r \in Sides :
          /\ TemplateResolved(r) => templates[Family(r)] = "current"
          /\ Launched(r) => launched[r] = 1
          /\ ~Launched(r) => launched[r] = 0
          /\ running_engine[r] # None =>
                /\ running_engine[r] = Arn(r)
                /\ running_engine[r] # running_engine[Other(r)]

\* Both runners run the same engine; black's lookup found no current template,
\* white has registered it and launched its instance since, black is about to
\* register it again.
C25_Witness ==
    /\ engine["white"] = engine["black"]
    /\ runPc["white"] = "polling"
    /\ launched["white"] = 1
    /\ runPc["black"] = "register"
    /\ templates[Family("black")] = "current"

\* C26: a run() makes its run_task call at most once, the call asks for one
\* instance, and a run() that has failed at any step goes on to nothing but
\* its own shutdown: no second lookup, run_task, connection or initialization.
C26_OneRunTaskNoRetry ==
    /\ [](\A r \in Sides : launched[r] \in {0, 1})
    /\ [][\A r \in Sides :
            /\ launched'[r] # launched[r] =>
                  /\ runPc[r] = "run_task"
                  /\ runPc'[r] = "polling"
                  /\ launched[r] = 0
                  /\ launched'[r] = 1
            /\ (runPc'[r] = "run_task" /\ runPc[r] # "run_task") =>
                  /\ runPc[r] \in {"describe", "register", "register_old"}
                  /\ launched[r] = 0
            /\ runErr[r] # "none" =>
                  /\ runPc'[r] \in {"run_shutdown", "failed"}
                  /\ launched'[r] = launched[r]
                  /\ runErr'[r] = runErr[r]]_vars

\* A run() failed at initialize after its instance was launched; the instance
\* was stopped and nothing was launched in its place.
C26_Witness ==
    \E r \in Sides :
       /\ runPc[r] = "failed"
       /\ runErr[r] = "initialize"
       /\ launched[r] = 1
       /\ stopReq[r] = 1

\* C28: after play_game has raised from its start phase and every run() has
\* ended, the runner whose run() succeeded has had its instance stopped.
C28_StartFailureStopsOther ==
    (StartFailed /\ \A r \in Sides : runPc[r] \in {"done", "failed"}) =>
       \A r \in Sides : (runPc[r] = "done" /\ launched[r] > 0) => stopReq[r] > 0


\* ---------------------------------------------------------------------------
\* Properties of the adapters (checked under SpecAdapter)
\* ---------------------------------------------------------------------------

\* C27: an adapter exists from connection_made on; it is alive, and
\* get_returncode answers None, exactly until connection_lost, and answers 0
\* from then on; the protocol is told of the loss by an adapter that already
\* answers 0, and of everything else by one that answers None; an adapter
\* that is not alive stays so.
C27_Returncode ==
    /\ [](\A c \in Sides :
            /\ c \in DOMAIN alive <=> conn[c] # "new"
            /\ c \in DOMAIN alive =>
                  /\ alive[c] <=> conn[c] \in {"open", "closing"}
                  /\ Returncode(alive[c]) = IF conn[c] = "lost" THEN "0" ELSE None
            /\ \A i \in DOMAIN driver[c] :
                  driver[c][i].returncode =
                     IF driver[c][i].call = "connection_lost" THEN "0" ELSE None
            /\ returncode[c] = "0" => conn[c] = "lost"
            /\ returncode[c] # "unasked" => c \in DOMAIN alive)
    /\ [][\A c \in Sides :
            /\ (c \in DOMAIN alive /\ ~alive[c]) =>
                  (c \in DOMAIN alive' /\ ~alive'[c])
            /\ returncode'[c] # returncode[c] =>
                  returncode'[c] = IF conn[c] = "lost" THEN "0" ELSE None]_vars

\* White's connection was made, carried data and was lost, and its adapter
\* has answered 0 since; black's is open and its adapter has answered None.
C27_Witness ==
    /\ conn["white"] = "lost"
    /\ Len(DataSeen("white")) > 0
    /\ driver["white"][Len(driver["white"])].call = "connection_lost"
    /\ returncode["white"] = "0"
    /\ conn["black"] = "open"
    /\ returncode["black"] = None


\* ---------------------------------------------------------------------------
\* Properties of the events of a game (checked under Spec)
\* ---------------------------------------------------------------------------

\* play_game has called shutdown on a runner.
ShutdownBegun == \E r \in Sides, g \in {"ok", "err"} : sd[r][g] # "none"

\* C32: the events of a game are one StartGame, first, then MakeMove events,
\* then at most one EndGame, last; once play_game has begun to shut the
\* runners down no MakeMove is published, and once EndGame is published
\* nothing is.
C32_EventOrder ==
    /\ [](/\ pc = "init" => published = <<>>
          /\ pc # "init" => published # <<>>
          /\ \A i \in DOMAIN published :
                /\ published[i].typ = "START_GAME" <=> i = 1
                /\ published[i].typ = "END_GAME" => (i = Len(published) /\ i > 1)
                /\ published[i].typ \in {"START_GAME", "MAKE_MOVE", "END_GAME"})
    /\ [][ /\ ShutdownBegun =>
                \/ published' = published
                \/ /\ published' = Append(published, published'[Len(published')])
                   /\ published'[Len(published')].typ = "END_GAME"
           /\ EventsOf("END_GAME") # <<>> => published' = published ]_vars

\* A whole game: StartGame, the moves of white and black, EndGame, after the
\* runners were shut down.
C32_Witness ==
    /\ Len(published) = 4
    /\ published[1].typ = "START_GAME"
    /\ published[2].typ = "MAKE_MOVE"
    /\ published[3].typ = "MAKE_MOVE"
    /\ published[4].typ = "END_GAME"
    /\ ShutdownBegun
    /\ pc = "done"


====
